---- MODULE Spec2Model ----
(***************************************************************************)
(* TempExtractor (src/temp_extractor.py): an mrjob map/reduce job.  The    *)
(* mapper decodes one fixed-width weather record into at most one          *)
(* (year, temperature) pair; the reducer re-emits every temperature of a   *)
(* year as the text line "<year> <temperature>".                           *)
(*                                                                         *)
(* A Python str is modelled as a sequence of one-character strings, so     *)
(* that slicing, int() and str() are computed character by character.      *)
(***************************************************************************)
EXTENDS Integers, Sequences, FiniteSets, TLC

(* ------------------------------------------------------------------ *)
(* State of one run of the job                                          *)
(* ------------------------------------------------------------------ *)
VARIABLES
    shards,     \* shards[w]: the lines mapper task w has still to read
    calls,      \* every mapper invocation so far, in order: line, pairs, exception
    mapped,     \* the pairs the mappers yielded, in arrival order
    phase,      \* "map", then "reduce" once the pairs are grouped by key
    groups,     \* groups[year]: the temperatures grouped under that key
    output      \* output[year]: what the reducer invocation for year yielded

vars == <<shards, calls, mapped, phase, groups, output>>

(* ------------------------------------------------------------------ *)
(* Bounds of the model                                                  *)
(* ------------------------------------------------------------------ *)
MaxLines == 3
NumMappers == 2

(* ------------------------------------------------------------------ *)
(* Program constants                                                    *)
(* ------------------------------------------------------------------ *)
MinLen == 93
YearStart == 15
YearEnd == 19
TempStart == 87
TempEnd == 92
QualityAt == 92
Missing == 9999
GoodQuality == <<"0", "1", "4", "5", "9">>
None == <<"None">>

(* ------------------------------------------------------------------ *)
(* Python str primitives                                                *)
(* ------------------------------------------------------------------ *)
Digits == <<"0", "1", "2", "3", "4", "5", "6", "7", "8", "9">>
DigitSet == {Digits[i] : i \in 1..10}
DigitVal(c) == (CHOOSE i \in 1..10 : Digits[i] = c) - 1
Whitespace == {" "}

SetMin(S) == CHOOSE x \in S : \A y \in S : x <= y
SetMax(S) == CHOOSE x \in S : \A y \in S : x >= y

\* s[a:b] for 0 <= a <= b: clamped to the string, never an error
Slice(s, a, b) == SubSeq(s, a + 1, IF b < Len(s) THEN b ELSE Len(s))

\* s[i]: IndexError past the end
Index(s, i) ==
    IF i < Len(s) THEN [ok |-> TRUE, val |-> <<s[i + 1]>>]
    ELSE [ok |-> FALSE, val |-> <<>>]

startswith(s, c) == Len(s) >= 1 /\ s[1] = c

\* str.isspace(): at least one character, all of them whitespace
isspace(s) == Len(s) >= 1 /\ \A i \in 1..Len(s) : s[i] \in Whitespace

\* sub in s, for a str sub
contains(s, sub) ==
    \E i \in 0..(Len(s) - Len(sub)) : SubSeq(s, i + 1, i + Len(sub)) = sub

strip(s) ==
    LET keep == {i \in 1..Len(s) : s[i] \notin Whitespace}
    IN IF keep = {} THEN <<>> ELSE SubSeq(s, SetMin(keep), SetMax(keep))

RECURSIVE DigitsValue(_)
DigitsValue(s) ==
    IF s = <<>> THEN 0
    ELSE LET front == SubSeq(s, 1, Len(s) - 1)
             c == s[Len(s)]
         IN IF c = "_" THEN DigitsValue(front)
            ELSE 10 * DigitsValue(front) + DigitVal(c)

\* int(s), base 10: surrounding whitespace is dropped, one optional sign,
\* then digits in which single underscores may separate digits.
\* ok = FALSE is ValueError.
int(s) ==
    LET t == strip(s)
        signed == Len(t) >= 1 /\ t[1] \in {"+", "-"}
        body == IF signed THEN Tail(t) ELSE t
        n == Len(body)
        wellformed ==
            /\ n >= 1
            /\ \A i \in 1..n : body[i] \in DigitSet \cup {"_"}
            /\ body[1] \in DigitSet
            /\ body[n] \in DigitSet
            /\ \A i \in 1..(n - 1) : ~(body[i] = "_" /\ body[i + 1] = "_")
    IN IF ~wellformed THEN [ok |-> FALSE, val |-> 0]
       ELSE [ok |-> TRUE,
             val |-> IF signed /\ t[1] = "-" THEN 0 - DigitsValue(body)
                     ELSE DigitsValue(body)]

RECURSIVE DecStr(_)
DecStr(n) ==
    IF n < 10 THEN <<Digits[n + 1]>>
    ELSE DecStr(n \div 10) \o <<Digits[(n % 10) + 1]>>

\* str(n) for an int n
str(n) == IF n < 0 THEN <<"-">> \o DecStr(0 - n) ELSE DecStr(n)

(* ------------------------------------------------------------------ *)
(* TempExtractor.mapper                                                 *)
(* ------------------------------------------------------------------ *)
Result(out, err) == [out |-> out, err |-> err]

\* Mutation: the length test written <= instead of <
TooShort_le(line) == Len(line) <= MinLen

TooShort(line) == Len(line) < MinLen

YearOf(line) == Slice(line, YearStart, YearEnd)

TempField(line) == Slice(line, TempStart, TempEnd)

\* Mutation: a leading '-' is removed like a leading '+'
StripSign(temp_str) ==
    IF startswith(temp_str, "+") \/ startswith(temp_str, "-")
    THEN Slice(temp_str, 1, Len(temp_str))
    ELSE temp_str

StripPlus(temp_str) ==
    IF startswith(temp_str, "+") THEN Slice(temp_str, 1, Len(temp_str))
    ELSE temp_str

Blank(temp_str) == temp_str = <<>> \/ isspace(temp_str)

\* Mutation: the sentinel test is left out
Keep_noSentinel(temp, quality) == contains(GoodQuality, quality)

\* Mutation: the quality test is left out
Keep_noQuality(temp, quality) == temp # Missing

\* Mutation: a temperature already yielded by an earlier invocation is
\* remembered and skipped
Keep_seen(temp, quality) ==
    /\ temp # Missing
    /\ contains(GoodQuality, quality)
    /\ \A i \in 1..Len(mapped) : mapped[i].value # temp

Keep(temp, quality) == temp # Missing /\ contains(GoodQuality, quality)

\* The pairs the generator yields for one line, and the exception that
\* leaves it ("none" when it returns normally).
mapper(line) ==
    IF TooShort(line) THEN Result(<<>>, "none")
    ELSE LET year == YearOf(line)
             temp_str == StripPlus(TempField(line))
         IN IF Blank(temp_str) THEN Result(<<>>, "none")
            ELSE LET parsed == int(temp_str)
                 IN IF ~parsed.ok THEN Result(<<>>, "none")
                    ELSE LET q == Index(line, QualityAt)
                         IN IF ~q.ok THEN Result(<<>>, "IndexError")
                            ELSE IF Keep(parsed.val, q.val)
                                 THEN Result(<<[key |-> year, value |-> parsed.val]>>, "none")
                                 ELSE Result(<<>>, "none")

(* ------------------------------------------------------------------ *)
(* TempExtractor.reducer                                                *)
(* ------------------------------------------------------------------ *)
\* Mutation: the temperature written with an explicit sign
Format_plus(year, temp) ==
    year \o <<" ">> \o (IF temp >= 0 THEN <<"+">> ELSE <<>>) \o str(temp)

Format(year, temp) == year \o <<" ">> \o str(temp)

\* One iteration of the loop over temps
reducer_yield(year, temp) == <<[key |-> None, value |-> Format(year, temp)]>>

\* Mutation: a temperature equal to the one before it is dropped
RECURSIVE reducer_distinct(_, _)
reducer_distinct(year, temps) ==
    IF temps = <<>> THEN <<>>
    ELSE (IF Len(temps) >= 2 /\ temps[1] = temps[2] THEN <<>>
          ELSE reducer_yield(year, Head(temps)))
             \o reducer_distinct(year, Tail(temps))

\* Mutation: the temperatures are walked from the last to the first
RECURSIVE reducer_reversed(_, _)
reducer_reversed(year, temps) ==
    IF temps = <<>> THEN <<>>
    ELSE reducer_reversed(year, Tail(temps)) \o reducer_yield(year, Head(temps))

\* Everything one invocation yields: the loop over temps, in order
RECURSIVE reducer(_, _)
reducer(year, temps) ==
    IF temps = <<>> THEN <<>>
    ELSE reducer_yield(year, Head(temps)) \o reducer(year, Tail(temps))

(* ------------------------------------------------------------------ *)
(* Input records                                                        *)
(* ------------------------------------------------------------------ *)
Fill(n, c) == [i \in 1..n |-> c]

\* A record with the three fields at their columns, cut to n characters
MkLine(year, field, quality, n) ==
    Slice(Fill(YearStart, "0") \o year \o Fill(TempStart - YearEnd, "0")
              \o field \o <<quality>> \o <<"N", "N">>, 0, n)

Years == {<<"1", "9", "5", "0">>, <<"1", "9", "5", "1">>, <<"1", "9", "A", "0">>}
Qualities == {"0", "1", "4", "5", "9", "2", "3", "A", " "}
Lengths == {0, 17, 90, 92, 93, 95}
FieldChars == {"0", "9", "+", "-", " ", "_", "x"}
AllFields == [1..(TempEnd - TempStart) -> FieldChars]
SampleFields ==
    { <<"+", "0", "0", "7", "8">>, <<"-", "0", "0", "5", "0">>,
      <<"+", "9", "9", "9", "9">>, <<"-", "9", "9", "9", "9">>,
      <<"0", "9", "9", "9", "9">>, <<"+", "0", "1", "0", "0">>,
      <<"-", "0", "0", "2", "0">>, <<"1", "2", "x", "4", "5">>,
      <<" ", " ", " ", " ", " ">>, <<"+", " ", " ", " ", " ">>,
      <<"0", "_", "0", "7", "8">>, <<" ", "0", "0", "7", "8">>,
      <<"+", "+", "0", "7", "8">>, <<"+", "-", "0", "5", "0">>,
      <<"0", "0", "0", "0", "0">>, <<"-", "0", "0", "0", "0">>,
      <<"1", "2", "3", "4", "5">>, <<"-", "1", "2", "3", "4">> }

AllLines ==
    {MkLine(<<"1", "9", "5", "0">>, f, q, MinLen) : f \in AllFields, q \in {"1", "2"}}
    \cup {MkLine(y, f, q, n) : y \in Years, f \in SampleFields,
                               q \in Qualities, n \in Lengths}

Y1950 == <<"1", "9", "5", "0">>
Y1951 == <<"1", "9", "5", "1">>
LineA == MkLine(Y1950, <<"+", "0", "1", "0", "0">>, "1", MinLen)
LineB == MkLine(Y1950, <<"-", "0", "0", "2", "0">>, "0", MinLen)
LineC == MkLine(Y1950, <<"+", "9", "9", "9", "9">>, "1", MinLen)
LineD == MkLine(Y1951, <<"+", "0", "0", "7", "8">>, "1", MinLen + 2)
LineE == MkLine(Y1951, <<"-", "0", "0", "5", "0">>, "5", MinLen)
LineF == MkLine(<<"1", "9", "A", "0">>, <<"+", "0", "0", "7", "8">>, "4", MinLen)
LineG == MkLine(Y1950, <<"0", "_", "0", "7", "8">>, "9", MinLen)
LineH == MkLine(Y1950, <<"+", "0", "1", "0", "0">>, "1", MinLen - 1)
LineI == MkLine(Y1951, <<"+", "0", "0", "7", "8">>, "2", MinLen)
PipeLines == {LineA, LineB, LineC, LineD, LineE, LineF, LineG, LineH, LineI}

RECURSIVE SeqsUpTo(_, _)
SeqsUpTo(S, n) ==
    IF n = 0 THEN {<<>>}
    ELSE LET shorter == SeqsUpTo(S, n - 1)
         IN shorter \cup {Append(s, x) : s \in {t \in shorter : Len(t) = n - 1}, x \in S}

(* ------------------------------------------------------------------ *)
(* The job: map phase, grouping by key, reduce phase                    *)
(* ------------------------------------------------------------------ *)
Mappers == 1..NumMappers

\* The lines of input that make up the shard of task w
RECURSIVE ShardOf(_, _, _)
ShardOf(input, w, i) ==
    IF i > Len(input) THEN <<>>
    ELSE (IF ((i - 1) % NumMappers) + 1 = w THEN <<input[i]>> ELSE <<>>)
             \o ShardOf(input, w, i + 1)

Start(input) ==
    /\ shards = [w \in Mappers |-> ShardOf(input, w, 1)]
    /\ calls = <<>>
    /\ mapped = <<>>
    /\ phase = "map"
    /\ groups = <<>>
    /\ output = <<>>

Init == \E input \in SeqsUpTo(PipeLines, MaxLines) : Start(input)

InitParse == \E line \in AllLines : Start(<<line>>)

\* Task w runs the mapper on its next line
Mapper(w) ==
    /\ phase = "map"
    /\ shards[w] # <<>>
    /\ LET line == Head(shards[w])
           r == mapper(line)
       IN /\ calls' = Append(calls, [line |-> line, out |-> r.out, err |-> r.err])
          /\ mapped' = mapped \o r.out
    /\ shards' = [shards EXCEPT ![w] = Tail(@)]
    /\ UNCHANGED <<phase, groups, output>>

\* The values of the pairs with key k, in arrival order
RECURSIVE ValuesOf(_, _)
ValuesOf(pairs, k) ==
    IF pairs = <<>> THEN <<>>
    ELSE (IF Head(pairs).key = k THEN <<Head(pairs).value>> ELSE <<>>)
             \o ValuesOf(Tail(pairs), k)

KeysOf(pairs) == {pairs[i].key : i \in 1..Len(pairs)}

\* Once every shard is read, the pairs are grouped by key
Group ==
    /\ phase = "map"
    /\ \A w \in Mappers : shards[w] = <<>>
    /\ phase' = "reduce"
    /\ groups' = [k \in KeysOf(mapped) |-> ValuesOf(mapped, k)]
    /\ UNCHANGED <<shards, calls, mapped, output>>

\* One reducer invocation per key
Reducer(year) ==
    /\ phase = "reduce"
    /\ year \in DOMAIN groups
    /\ year \notin DOMAIN output
    /\ output' = [k \in DOMAIN output \cup {year} |->
                     IF k = year THEN reducer(year, groups[year]) ELSE output[k]]
    /\ UNCHANGED <<shards, calls, mapped, phase, groups>>

Next ==
    \/ \E w \in Mappers : Mapper(w)
    \/ Group
    \/ \E year \in DOMAIN groups : Reducer(year)

Spec == Init /\ [][Next]_vars

SpecParse == InitParse /\ [][Next]_vars

(* ------------------------------------------------------------------ *)
(* What the record format says, read off the line itself                *)
(* ------------------------------------------------------------------ *)
ColYear(line) == SubSeq(line, 16, 19)
ColTemp(line) == SubSeq(line, 88, 92)
ColQuality(line) == line[93]
Accepted == {"0", "1", "4", "5", "9"}

\* The temperature column with one leading '+' removed
Unsigned(line) ==
    LET f == ColTemp(line) IN IF f[1] = "+" THEN SubSeq(f, 2, Len(f)) ELSE f

\* An optional single leading sign followed only by decimal digits
Magnitude(s) == IF s # <<>> /\ s[1] \in {"+", "-"} THEN SubSeq(s, 2, Len(s)) ELSE s
IsSignedDecimal(s) ==
    /\ Magnitude(s) # <<>>
    /\ \A i \in 1..Len(Magnitude(s)) : Magnitude(s)[i] \in DigitSet

RECURSIVE Pow10(_)
Pow10(k) == IF k = 0 THEN 1 ELSE 10 * Pow10(k - 1)

RECURSIVE PlaceSum(_, _)
PlaceSum(m, i) ==
    IF i > Len(m) THEN 0
    ELSE DigitVal(m[i]) * Pow10(Len(m) - i) + PlaceSum(m, i + 1)

SignedValue(s) ==
    IF s[1] = "-" THEN 0 - PlaceSum(Magnitude(s), 1) ELSE PlaceSum(Magnitude(s), 1)

IsBlank(s) == \A i \in 1..Len(s) : s[i] = " "

\* No sign for zero, no '+', no leading zero
IsCanonical(s) ==
    \/ s = <<"0">>
    \/ /\ IsSignedDecimal(s)
       /\ s[1] # "+"
       /\ Magnitude(s)[1] # "0"

Full(line) == Len(line) >= 93
WellFormed(line) == Full(line) /\ IsSignedDecimal(Unsigned(line))
Reading(line) == SignedValue(Unsigned(line))

CallIds == 1..Len(calls)

\* The text of an output line after its year and the space
TempText(year, value) == SubSeq(value, Len(year) + 2, Len(value))

Plus0078 == <<"+", "0", "0", "7", "8">>
Minus0050 == <<"-", "0", "0", "5", "0">>

(* ------------------------------------------------------------------ *)
(* Claims                                                               *)
(* ------------------------------------------------------------------ *)

\* C1: a line of at least 93 characters whose temperature column, less one
\* leading '+', is a signed decimal t with t # 9999 and an accepted quality
\* character makes the mapper yield exactly the pair (line[15:19], t);
\* "+0078" with quality '1' yields (year, 78), "-0050" with quality '5'
\* yields -50; no line ever yields more than one pair.
C1_MapperEmits ==
    \A i \in CallIds :
        LET l == calls[i].line
            o == calls[i].out
        IN /\ Len(o) <= 1
           /\ (WellFormed(l) /\ Reading(l) # 9999 /\ ColQuality(l) \in Accepted)
                 => o = <<[key |-> ColYear(l), value |-> Reading(l)]>>
           /\ (Full(l) /\ ColTemp(l) = Plus0078 /\ ColQuality(l) = "1")
                 => o = <<[key |-> ColYear(l), value |-> 78]>>
           /\ (Full(l) /\ ColTemp(l) = Minus0050 /\ ColQuality(l) = "5")
                 => (Len(o) = 1 /\ o[1].value = 0 - 50)

C1_Witness ==
    \E i \in CallIds :
        /\ Full(calls[i].line)
        /\ ColTemp(calls[i].line) = Minus0050
        /\ ColQuality(calls[i].line) = "5"
        /\ calls[i].out = <<[key |-> Y1951, value |-> 0 - 50]>>

\* C2: a line shorter than 93 characters yields nothing, whatever it holds;
\* a line of exactly 93 characters with a signed-decimal temperature other
\* than 9999 and an accepted quality character yields a pair.
C2_LengthCheck ==
    \A i \in CallIds :
        LET l == calls[i].line
        IN /\ Len(l) < 93 => calls[i].out = <<>>
           /\ (Len(l) = 93 /\ WellFormed(l) /\ Reading(l) # 9999
                 /\ ColQuality(l) \in Accepted) => Len(calls[i].out) = 1

C2_Witness ==
    \E i \in CallIds :
        /\ Len(calls[i].line) = 93
        /\ WellFormed(calls[i].line)
        /\ Len(calls[i].out) = 1

\* C3: a line whose temperature column reads 9999 after sign-stripping
\* yields nothing whatever its quality character; no yielded pair, no
\* grouped temperature and no output line carries 9999.
C3_SentinelNeverEmitted ==
    /\ \A i \in CallIds :
          /\ (WellFormed(calls[i].line) /\ Reading(calls[i].line) = 9999)
                => calls[i].out = <<>>
          /\ \A j \in 1..Len(calls[i].out) : calls[i].out[j].value # 9999
    /\ \A j \in 1..Len(mapped) : mapped[j].value # 9999
    /\ \A y \in DOMAIN groups : \A j \in 1..Len(groups[y]) : groups[y][j] # 9999
    /\ \A y \in DOMAIN output : \A j \in 1..Len(output[y]) :
          TempText(y, output[y][j].value) # <<"9", "9", "9", "9">>

C3_Witness ==
    /\ phase = "reduce"
    /\ DOMAIN output = {}
    /\ \E i \in CallIds :
          /\ WellFormed(calls[i].line)
          /\ Reading(calls[i].line) = 9999
          /\ ColQuality(calls[i].line) \in Accepted

\* C4: a line whose character at offset 92 is not one of 0, 1, 4, 5, 9
\* yields nothing whatever its temperature column holds; every yielded
\* pair comes from a line whose quality character is one of them.
C4_QualityFilter ==
    \A i \in CallIds :
        LET l == calls[i].line
        IN /\ (Full(l) /\ ColQuality(l) \notin Accepted) => calls[i].out = <<>>
           /\ calls[i].out # <<>> => (Full(l) /\ ColQuality(l) \in Accepted)

C4_Witness ==
    \E i \in CallIds :
        /\ WellFormed(calls[i].line)
        /\ Reading(calls[i].line) = 78
        /\ ColQuality(calls[i].line) = "2"
        /\ calls[i].out = <<>>

AllDigits(s) == \A i \in 1..Len(s) : s[i] \in DigitSet

\* C5: the year of every yielded pair and of every output line is exactly
\* 4 ASCII digits; a line whose characters at offsets [15,19) are not all
\* digits never yields a pair.
C5_YearIsFourDigits ==
    /\ \A i \in CallIds :
          calls[i].out # <<>> =>
              /\ AllDigits(ColYear(calls[i].line))
              /\ \A j \in 1..Len(calls[i].out) :
                    /\ Len(calls[i].out[j].key) = 4
                    /\ AllDigits(calls[i].out[j].key)
    /\ \A y \in DOMAIN output : \A j \in 1..Len(output[y]) :
          AllDigits(SubSeq(output[y][j].value, 1, 4))

\* C6: a line of at least 93 characters whose temperature column, less one
\* leading '+', is blank or is anything other than an optional single
\* leading sign followed only by decimal digits yields nothing; and the
\* mapper returns normally on every line.
C6_MalformedDiscarded ==
    \A i \in CallIds :
        LET l == calls[i].line
        IN /\ calls[i].err = "none"
           /\ (Full(l) /\ (IsBlank(Unsigned(l)) \/ ~IsSignedDecimal(Unsigned(l))))
                 => calls[i].out = <<>>

\* C7: the reducer invocation for a year yields one output per temperature
\* delivered, in the order delivered: as many outputs as temperatures, the
\* i-th built from the i-th temperature, duplicates kept, every key null.
C7_ReducerOnePerTemp ==
    \A y \in DOMAIN output :
        /\ Len(output[y]) = Len(groups[y])
        /\ \A i \in 1..Len(output[y]) :
              LET v == output[y][i].value
              IN /\ output[y][i].key = None
                 /\ SubSeq(v, 1, Len(y)) = y
                 /\ IsSignedDecimal(TempText(y, v))
                 /\ SignedValue(TempText(y, v)) = groups[y][i]

C7_Witness ==
    \E y \in DOMAIN output :
        /\ Len(groups[y]) = 3
        /\ groups[y][1] = groups[y][2]
        /\ groups[y][3] # groups[y][1]
        /\ Len(output[y]) = 3

\* C8: every output line is the year as received, one space, and the
\* temperature as its decimal integer: '-' for a negative value, no '+',
\* no zero-padding; 78 is written "78" and -50 is written "-50".
C8_OutputFormat ==
    \A y \in DOMAIN output : \A i \in 1..Len(output[y]) :
        LET v == output[y][i].value
            t == TempText(y, v)
        IN /\ Len(v) >= Len(y) + 2
           /\ SubSeq(v, 1, Len(y)) = y
           /\ v[Len(y) + 1] = " "
           /\ IsCanonical(t)
           /\ SignedValue(t) = groups[y][i]
           /\ groups[y][i] = 78 => t = <<"7", "8">>
           /\ groups[y][i] = 0 - 50 => t = <<"-", "5", "0">>

C8_Witness ==
    /\ \E i \in CallIds :
          Full(calls[i].line) /\ ColTemp(calls[i].line) = Plus0078
    /\ Y1951 \in DOMAIN output
    /\ output[Y1951] = <<[key |-> None,
                          value |-> <<"1", "9", "5", "1", " ", "7", "8">>]>>

\* The temperatures the mapper invocations yielded under key y, in the
\* order of the invocations
RECURSIVE Arrivals(_, _)
Arrivals(y, i) ==
    IF i > Len(calls) THEN <<>>
    ELSE (IF calls[i].out # <<>> /\ ColYear(calls[i].line) = y
          THEN <<calls[i].out[1].value>> ELSE <<>>) \o Arrivals(y, i + 1)

YearsRead == {ColYear(calls[i].line) : i \in {j \in CallIds : Full(calls[j].line)}}

Finished ==
    /\ phase = "reduce"
    /\ DOMAIN output = DOMAIN groups

LinesRead == [i \in CallIds |-> calls[i].line]

\* C9: once every line is mapped and every reducer invocation has run, the
\* output for a year is one line per accepted line of that year, none for a
\* discarded line, in arrival order, whatever the interleaving of the
\* mapper tasks; lines for 1950 with 100/'1', -20/'0', 9999/'1' arriving in
\* that order give exactly "1950 100" and "1950 -20".
C9_EndToEnd ==
    Finished =>
        /\ \A y \in YearsRead \cup DOMAIN output :
              IF Arrivals(y, 1) = <<>> THEN y \notin DOMAIN output
              ELSE /\ y \in DOMAIN output
                   /\ Len(output[y]) = Len(Arrivals(y, 1))
                   /\ \A i \in 1..Len(output[y]) :
                         /\ SubSeq(output[y][i].value, 1, 4) = y
                         /\ SignedValue(TempText(y, output[y][i].value))
                               = Arrivals(y, 1)[i]
        /\ LinesRead = <<LineA, LineB, LineC>> =>
              output = (Y1950 :>
                  << [key |-> None,
                      value |-> <<"1", "9", "5", "0", " ", "1", "0", "0">>],
                     [key |-> None,
                      value |-> <<"1", "9", "5", "0", " ", "-", "2", "0">>] >>)

C9_Witness ==
    /\ Finished
    /\ LinesRead = <<LineA, LineB, LineC>>
    /\ Len(output[Y1950]) = 2

\* C10: two mapper invocations on the same line give the same result,
\* whatever was mapped before them and by whichever task.
C10_MapperIsPure ==
    \A i \in CallIds : \A j \in CallIds :
        calls[i].line = calls[j].line =>
            /\ calls[i].out = calls[j].out
            /\ calls[i].err = calls[j].err

C10_Witness ==
    \E i \in CallIds : \E j \in CallIds :
        /\ i + 1 < j
        /\ calls[i].line = calls[j].line
        /\ calls[i].out # <<>>
        /\ calls[i + 1].line # calls[i].line

====
